---------------------------- MODULE Spec2Model ----------------------------
(***************************************************************************)
(* A model of the incremental ETL pipeline of hdb-kaki:                    *)
(*   webapp/update/extract.py        process_month, extract                *)
(*   webapp/update/datagov.py        fetch_data_gov_sg, download_dataset   *)
(*   webapp/update/property_info.py  update_property_info                  *)
(*   webapp/update/geocoding.py      fetch_map_data, get_map_results       *)
(*   webapp/update/convert.py        convert_lease, csv_to_parquet         *)
(*   webapp/update/etl.py            update_data                           *)
(*                                                                         *)
(* Each component is a group of variables with its own specification       *)
(* (SpecMerge, SpecFetch, SpecDownload, SpecProperty, ...); a              *)
(* specification leaves the variables of the other components at their     *)
(* initial value.                                                          *)
(***************************************************************************)
EXTENDS Integers, Sequences, FiniteSets, TLC

VARIABLES
    files,      \* extract.py: data/<month>.csv, one period file per month
    today,      \* extract.py:224: datetime.today().strftime("%Y-%m-%d")
    run,        \* extract.py:287-293: the running extract call (its loop)
    last,       \* history: the most recent process_month call
    twice,      \* a pair of process_month calls on one fetch
    pager,      \* datagov.py:25-62: a fetch_data_gov_sg call (its loop)
    metadata,   \* datagov.py:107: <base_path>/metadata.json
    datafiles,  \* datagov.py:180-183: the downloaded files of base_path
    dl,         \* history: the most recent download_dataset call
    table,      \* property_info.py:71: HDB Property Information.CSV
    upd,        \* history: the most recent update_property_info call
    pool,       \* geocoding.py:48-67, extract.py:80-99: a get_map_results call
    csv,        \* convert.py:23: the rows of data/*.csv
    parquet,    \* convert.py:64: data/df.parquet
    etl,        \* etl.py:11-24: an update_data run and data/<subdir>/metadata
    lookups     \* history: the addresses process_month calls passed to get_map_results

mergeVars == <<files, today, run, last, twice>>
fetchVars == <<pager>>
dlVars == <<metadata, datafiles, dl>>
propVars == <<table, upd>>
geoVars == <<pool>>
convVars == <<csv, parquet>>
etlVars == <<etl>>
cacheVars == <<lookups>>

vars == <<files, today, run, last, twice, pager, metadata, datafiles, dl, table, upd,
          pool, csv, parquet, etl, lookups>>

--------------------------------------------------------------------------
(* Bounds of the model.                                                    *)

MaxId == 2          \* record identifiers are 1..MaxId
NumMonths == 3      \* reporting months are 1..NumMonths
MaxRecords == 6     \* a dataset holds at most MaxRecords matching records
MaxLimit == 3       \* the page size of a search is 1..MaxLimit
MaxStamp == 2       \* lastUpdatedAt instants are 1..MaxStamp
MaxRows == 2        \* a downloaded reference file holds at most MaxRows rows
MaxBatch == 3       \* the input of a geocoding batch holds at most MaxBatch rows
MaxWorkers == 2     \* the worker pool runs at most MaxWorkers lookups at a time
MaxCsv == 3         \* the period files hold at most MaxCsv rows together

--------------------------------------------------------------------------
(* Values.                                                                 *)

NaN == "NaN"                        \* pandas' missing value
Ids == 1..MaxId
Months == 1..NumMonths
Dates == {"2024-05-01", "2024-05-02"}  \* _ts values, "%Y-%m-%d"
Addresses == {"A", "B"}             \* block + " " + street_name
Prices == {100, 200}                \* resale_price, the payload of a record
Postals == {"p1", "p2"}
Latitudes == {"lat1", "lat2"}
Longitudes == {"lon1", "lon2"}

\* A record as the search API returns it (extract.py:23), after get_data
\* added its address column (extract.py:42).
Records == [_id : Ids, address : Addresses, resale_price : Prices]

\* Coordinate columns a persisted row can carry.
Coordinates ==
    { [postal |-> "p1", latitude |-> "lat1", longitude |-> "lon1"],
      [postal |-> "p2", latitude |-> "lat2", longitude |-> "lon2"],
      [postal |-> NaN, latitude |-> "lat1", longitude |-> "lon1"],
      [postal |-> "p1", latitude |-> NaN, longitude |-> "lon1"],
      [postal |-> "p1", latitude |-> "lat1", longitude |-> NaN] }

Range(s) == { s[i] : i \in DOMAIN s }

\* Sequences over S of length n.
SeqsOfLen(S, n) == [1..n -> S]

\* Sequences over S of length at most n.
SeqsUpTo(S, n) == UNION { SeqsOfLen(S, k) : k \in 0..n }

\* The rows come in ascending _id order, as the search API returns them,
\* hence no two share an _id.
AscendingIds(s) == \A i, j \in DOMAIN s : i < j => s[i]._id < s[j]._id

\* The identifiers of I in ascending order.
SortedIds(I) ==
    [k \in 1..Cardinality(I) |->
        CHOOSE x \in I : Cardinality({ y \in I : y < x }) = k - 1]

\* What a fetch for one month can return (extract.py:15-23): some records
\* with distinct identifiers, in ascending order, all at the price of one
\* upstream revision.
Fetches ==
    { [k \in 1..Cardinality(I) |->
          [_id |-> SortedIds(I)[k], address |-> addr[SortedIds(I)[k]],
           resale_price |-> p]] :
        I \in SUBSET Ids, addr \in [Ids -> Addresses], p \in Prices }

NoFile == [exists |-> FALSE, rows |-> <<>>]


--------------------------------------------------------------------------
(* pandas helpers used by process_month.                                   *)

\* The subsequence of s at the indices in I, in order.
SubSeqAt(s, I) ==
    LET F[k \in 0..Len(s)] ==
            IF k = 0 THEN <<>>
            ELSE IF k \in I THEN Append(F[k - 1], s[k]) ELSE F[k - 1]
    IN  F[Len(s)]

\* DataFrame.drop_duplicates(subset="address"): the first row of each address.
drop_duplicates_address(rows) ==
    SubSeqAt(rows, { i \in DOMAIN rows :
                        \A j \in 1..(i - 1) : rows[j].address # rows[i].address })

\* DataFrame.dropna(subset="postal").
dropna_postal(rows) == SubSeqAt(rows, { i \in DOMAIN rows : rows[i].postal # NaN })

\* The coordinate columns of a row.
CoordsOf(row) ==
    [address |-> row.address, postal |-> row.postal,
     latitude |-> row.latitude, longitude |-> row.longitude]

\* Mutant of property_coords: the duplicates of an address are not dropped.
property_coords_all(existing_data) ==
    LET kept == dropna_postal(existing_data)
    IN  [i \in DOMAIN kept |-> CoordsOf(kept[i])]

\* extract.py:174-178: one coordinate row per address of the existing file,
\* the first one, kept only if its postal code is known.
property_coords(existing_data) ==
    LET kept == dropna_postal(drop_duplicates_address(existing_data))
    IN  [i \in DOMAIN kept |-> CoordsOf(kept[i])]

\* extract.py:184: the existing rows lacking a latitude or a longitude.
missing_lat_lon(existing_data) ==
    { i \in DOMAIN existing_data :
        existing_data[i].latitude = NaN \/ existing_data[i].longitude = NaN }

\* extract.py:179-192: the addresses to geocode: those of the fetch without a
\* coordinate row, and those of existing rows lacking a latitude or longitude.
new_adresses(new_data, existing_data) ==
    LET existing_addresses == { c.address : c \in Range(property_coords(existing_data)) }
        fresh == { r.address : r \in Range(new_data) } \ existing_addresses
        missing == missing_lat_lon(existing_data)
    IN  IF missing # {}
        THEN fresh \cup { existing_data[i].address : i \in missing }
        ELSE fresh

\* extract.py:206: new_data.merge(property_coords, on="address", how="left").
\* A record is paired with every coordinate row of its address, in order;
\* a record without one keeps a single row of missing coordinates.
merge_left(new_data, coords) ==
    LET Pair(r, c) ==
            [_id |-> r._id, address |-> r.address, resale_price |-> r.resale_price,
             postal |-> c.postal, latitude |-> c.latitude, longitude |-> c.longitude]
        Unmatched(r) ==
            [_id |-> r._id, address |-> r.address, resale_price |-> r.resale_price,
             postal |-> NaN, latitude |-> NaN, longitude |-> NaN]
        Matches(r) ==
            LET hit == SubSeqAt(coords, { j \in DOMAIN coords : coords[j].address = r.address })
            IN  IF hit = <<>> THEN << Unmatched(r) >>
                ELSE [j \in DOMAIN hit |-> Pair(r, hit[j])]
        F[k \in 0..Len(new_data)] ==
            IF k = 0 THEN <<>> ELSE F[k - 1] \o Matches(new_data[k])
    IN  F[Len(new_data)]

\* Mutant of ts_map: the existing _ts is not looked up.
ts_map_lost(existing_data, id) == {}

\* extract.py:211-214: the _ts the existing file holds for an identifier, the
\* first row's if several share it; the empty set if it holds none.
ts_map(existing_data, id) ==
    LET hits == { i \in DOMAIN existing_data : existing_data[i]._id = id }
    IN  IF hits = {} THEN {}
        ELSE { existing_data[CHOOSE i \in hits : \A j \in hits : i <= j]._ts }

\* extract.py:224-226: a missing _ts becomes the processing date.
fillna(ts, day) == IF ts = {} THEN day ELSE CHOOSE t \in ts : TRUE

\* extract.py:210-226: the merged rows with their _ts column; the _ts of the
\* existing file is looked up unless both frames are empty.
with_ts(merged_df, new_data, existing_data, day) ==
    [i \in DOMAIN merged_df |->
        [_id |-> merged_df[i]._id, address |-> merged_df[i].address,
         resale_price |-> merged_df[i].resale_price,
         postal |-> merged_df[i].postal, latitude |-> merged_df[i].latitude,
         longitude |-> merged_df[i].longitude,
         _ts |-> IF ~(existing_data = <<>> /\ new_data = <<>>)
                 THEN fillna(ts_map(existing_data, merged_df[i]._id), day)
                 ELSE day]]

\* extract.py:228-248: astype; "postal": int fails on a missing postal code.
astype_ok(df) == \A i \in DOMAIN df : df[i].postal # NaN


--------------------------------------------------------------------------
(* process_month (extract.py:154-253).                                     *)

\* extract.py:132-137: TRUE when the month is to be processed.
skip_process(exists, should_process) == ~(exists /\ ~should_process)

\* extract.py:102-129: the rows of the period file, none without a file.
load_existing_data(f) == IF f.exists THEN f.rows ELSE <<>>

\* Mutant of no_data: an empty fetch is processed like any other.
no_data_ignored(new_data) == FALSE

\* extract.py:39-40, :163: get_data found no record for the month.
no_data(new_data) == new_data = <<>>

\* Mutant of data_size_not_updated: the comparison is inverted.
data_size_differs(new_data, existing_data) ==
    existing_data # <<>> /\ Len(new_data) # Len(existing_data)

\* extract.py:168: the fetch is as long as the existing non-empty file.
data_size_not_updated(new_data, existing_data) ==
    existing_data # <<>> /\ Len(new_data) = Len(existing_data)

\* Mutant of merged_rows: the merged rows are appended to the existing ones.
merged_rows_appended(new_data, existing_data, day) ==
    existing_data \o with_ts(merge_left(new_data, property_coords(existing_data)),
                             new_data, existing_data, day)

\* extract.py:201-226: the rows process_month writes.
merged_rows(new_data, existing_data, day) ==
    with_ts(merge_left(new_data, property_coords(existing_data)),
            new_data, existing_data, day)

\* How a call ended: the step that ended it (a return or an exception) and
\* the period file it leaves.
Outcome(step, f) == [step |-> step, file |-> f]

\* process_month on the period file f, with new_data what get_data returns
\* if the call gets that far, on processing date day.
process_month(f, should_process, new_data, day) ==
    LET existing_data == load_existing_data(f)
    IN  IF ~skip_process(f.exists, should_process)
        THEN Outcome("skip", f)                                  \* :158-159
        ELSE IF no_data(new_data)
        THEN Outcome("nodata", f)                                \* :163-165
        ELSE IF data_size_not_updated(new_data, existing_data)
        THEN Outcome("unchanged", f)                             \* :168-170
        ELSE IF existing_data = <<>>
        \* :172 is not entered, so new_adresses is unbound at :194
        THEN Outcome("UnboundLocalError", f)
        ELSE IF new_adresses(new_data, existing_data) # {}
        \* :196-198: existing_data["address", ...] is no column
        THEN Outcome("KeyError", f)
        ELSE LET df == merged_rows(new_data, existing_data, day)
             IN  IF ~astype_ok(df)
                 THEN Outcome("ValueError", f)                   \* :228
                 ELSE Outcome("written", [exists |-> TRUE, rows |-> df])  \* :252-253

\* The steps that end a call with an exception.
Raises == {"UnboundLocalError", "KeyError", "ValueError"}

\* What the call returned: :159, :165, :170 return False, :253 returns True.
ReturnOf(step) ==
    IF step = "written" THEN "True"
    ELSE IF step \in {"skip", "nodata", "unchanged"} THEN "False"
    ELSE IF step \in Raises THEN "raise"
    ELSE "none"

\* The call got as far as get_data (extract.py:162).
Fetched(step) == step \notin {"none", "skip"}

--------------------------------------------------------------------------
(* extract (extract.py:268-293).                                           *)

\* extract.py:256-265: all runs of the model happen in the last month.
current_month == NumMonths
last_month == NumMonths - 1

\* Mutant of ShouldProcess: every month up to the current one is refreshed.
ShouldProcess_upto(force, month) == force \/ month <= current_month

\* extract.py:289
ShouldProcess(force, month) == force \/ month \in {last_month, current_month}

Idle == [pc |-> "idle", next |-> 1, end |-> 0, force |-> FALSE, all_changed |-> FALSE]

\* No call yet.
NoCall == [month |-> 1, step |-> "none", day |-> "2024-05-01", nNew |-> 0, nOld |-> 0,
           revised |-> FALSE, shared |-> FALSE]

\* Some record of the fetch is in the existing file under its _id with
\* another address or price.
Revised(new_data, existing_data) ==
    \E r \in Range(new_data) : \E e \in Range(existing_data) :
        /\ r._id = e._id
        /\ r.address # e.address \/ r.resale_price # e.resale_price

\* What get_data can return to a call: nothing is fetched by a call that
\* skips the month.
FetchesOf(f, should_process) ==
    IF skip_process(f.exists, should_process) THEN Fetches ELSE { <<>> }

\* Some address of the fetch is on several rows of the existing file.
SharedAddress(new_data, existing_data) ==
    \E r \in Range(new_data) : \E i, j \in DOMAIN existing_data :
        i # j /\ existing_data[i].address = r.address
              /\ existing_data[j].address = r.address

\* The record of a call: its month, how it ended, its processing date, the
\* sizes of the fetch and of the existing file, and what the fetch was like.
CallOf(month, step, day, new_data, existing_data) ==
    [month |-> month, step |-> step, day |-> day,
     nNew |-> IF Fetched(step) THEN Len(new_data) ELSE 0,
     nOld |-> Len(existing_data),
     revised |-> Fetched(step) /\ Revised(new_data, existing_data),
     shared |-> Fetched(step) /\ SharedAddress(new_data, existing_data)]

\* The period of the merge specification.
Period == CHOOSE m \in Months : \A n \in Months : m <= n

\* A call of process_month for the period (extract.py:154).
ProcessMonth(should_process) ==
    /\ run.pc = "idle"
    /\ \E new_data \in FetchesOf(files[Period], should_process) :
         LET out == process_month(files[Period], should_process, new_data, today)
         IN  /\ files' = [files EXCEPT ![Period] = out.file]
             /\ last' = CallOf(Period, out.step, today, new_data,
                               load_existing_data(files[Period]))
    /\ UNCHANGED <<today, run, twice, fetchVars, dlVars, propVars, geoVars, convVars, etlVars, cacheVars>>

\* A later run happens on a later day.
NewDay ==
    /\ run.pc = "idle"
    /\ today = "2024-05-01"
    /\ today' = "2024-05-02"
    /\ UNCHANGED <<files, run, last, twice, fetchVars, dlVars, propVars, geoVars, convVars, etlVars, cacheVars>>

--------------------------------------------------------------------------
(* Initial period files: what earlier runs left, on the first day.         *)

FirstDay == {"2024-05-01"}

SeedRows ==
    { [_id |-> i, address |-> a, resale_price |-> 100, postal |-> c.postal,
       latitude |-> c.latitude, longitude |-> c.longitude, _ts |-> t] :
        i \in Ids, a \in Addresses, c \in Coordinates, t \in FirstDay }

SeedFiles ==
    {NoFile} \cup
    { [exists |-> TRUE, rows |-> s] :
        s \in { q \in SeqsUpTo(SeedRows, MaxId) : AscendingIds(q) } }

\* A lastUpdatedAt value: missing, a string that is no ISO timestamp, or an
\* instant, with a UTC offset ("aware") or without one ("naive").
NoStamp == [kind |-> "none", t |-> 0]
BadStamp == [kind |-> "bad", t |-> 0]
Stamps == [kind : {"naive", "aware"}, t : 1..MaxStamp]
TsVals == {NoStamp, BadStamp} \cup Stamps

Datasets == {"d1", "d2"}

\* The metadata.json entry of a dataset: the dataset's metadata as last
\* downloaded, of which the model keeps lastUpdatedAt.
NoEntry == [present |-> FALSE, lastUpdatedAt |-> NoStamp]
Entries == {NoEntry} \cup [present : {TRUE}, lastUpdatedAt : TsVals]

\* No metadata.json, no downloaded file, no download_dataset call yet.
NoMetadata == [state |-> "absent", entries |-> [d \in Datasets |-> NoEntry]]
NoDataFiles == [d \in Datasets |-> FALSE]
NoDownload == [dataset |-> "d1", status |-> "none", failure |-> "none", fetched |-> FALSE,
               current_ts |-> NoStamp, polled |-> FALSE, clean |-> FALSE,
               wrote |-> FALSE]

\* Neither a pair of calls nor a paginated fetch is under way.
\* No reference table, no update_property_info call yet.
NoTable == [exists |-> FALSE, columns |-> "none", rows |-> <<>>]
NoUpdate == [step |-> "none", replaced |-> FALSE, geocoded |-> {}, downloaded |-> <<>>]

\* No get_map_results call, no df.parquet yet.
NoPool == [pc |-> "idle", module |-> "geocoding", data |-> <<>>, futures |-> <<>>,
           collected |-> 0, results |-> <<>>, overtaken |-> FALSE]
NoParquet == [exists |-> FALSE, rows |-> <<>>, raised |-> "none"]

\* No update_data run yet; data/<subdir>/metadata as earlier runs left it.
NoEtl == [pc |-> "idle", start |-> 0, has_changed |-> FALSE, compacted |-> FALSE,
          metadata |-> "old", exception |-> "none"]

\* No process_month call that could have looked an address up yet.
NoLookups == [caller |-> "none", month |-> 1, step |-> "none", fetched |-> {}, batch |-> {},
              resolved |-> {}, before |-> {}]

NoPair == [pc |-> "none", new_data |-> <<>>, should_process |-> FALSE, first |-> "none"]
NoPager == [pc |-> "idle", total |-> 0, limit |-> 1, offset |-> 0,
            all_records |-> <<>>, requests |-> 0, failed |-> FALSE]

InitMerge ==
    /\ \E f \in SeedFiles :
          files = [m \in Months |-> IF m = Period THEN f ELSE NoFile]
    /\ today \in FirstDay
    /\ run = Idle
    /\ last = NoCall
    /\ twice = NoPair
    /\ pager = NoPager
    /\ metadata = NoMetadata
    /\ datafiles = NoDataFiles
    /\ dl = NoDownload
    /\ table = NoTable
    /\ upd = NoUpdate
    /\ pool = NoPool
    /\ csv = <<>>
    /\ parquet = NoParquet
    /\ etl = NoEtl
    /\ lookups = NoLookups

NextMerge ==
    \/ \E should_process \in BOOLEAN : ProcessMonth(should_process)
    \/ NewDay

SpecMerge == InitMerge /\ [][NextMerge]_vars

--------------------------------------------------------------------------
(* Two calls of process_month in succession on the same fetch.             *)

\* The first call of the pair.
FirstRun ==
    /\ twice.pc = "first"
    /\ LET out == process_month(files[Period], twice.should_process,
                                twice.new_data, today)
       IN  /\ files' = [files EXCEPT ![Period] = out.file]
           /\ last' = CallOf(Period, out.step, today, twice.new_data,
                             load_existing_data(files[Period]))
           /\ twice' = [twice EXCEPT !.pc = "second", !.first = out.step]
    /\ UNCHANGED <<today, run, fetchVars, dlVars, propVars, geoVars, convVars, etlVars, cacheVars>>

\* The second call, on the same fetch.
SecondRun ==
    /\ twice.pc = "second"
    /\ LET out == process_month(files[Period], twice.should_process,
                                twice.new_data, today)
       IN  /\ files' = [files EXCEPT ![Period] = out.file]
           /\ last' = CallOf(Period, out.step, today, twice.new_data,
                             load_existing_data(files[Period]))
           /\ twice' = [twice EXCEPT !.pc = "done"]
    /\ UNCHANGED <<today, run, fetchVars, dlVars, propVars, geoVars, convVars, etlVars, cacheVars>>

InitTwice ==
    /\ \E f \in SeedFiles :
          files = [m \in Months |-> IF m = Period THEN f ELSE NoFile]
    /\ today \in FirstDay
    /\ run = Idle
    /\ last = NoCall
    /\ \E new_data \in Fetches : \E should_process \in BOOLEAN :
          twice = [pc |-> "first", new_data |-> new_data,
                   should_process |-> should_process, first |-> "none"]
    /\ pager = NoPager
    /\ metadata = NoMetadata
    /\ datafiles = NoDataFiles
    /\ dl = NoDownload
    /\ table = NoTable
    /\ upd = NoUpdate
    /\ pool = NoPool
    /\ csv = <<>>
    /\ parquet = NoParquet
    /\ etl = NoEtl
    /\ lookups = NoLookups

NextTwice ==
    \/ FirstRun
    \/ SecondRun
    \/ NewDay

SpecTwice == InitTwice /\ [][NextTwice]_vars

--------------------------------------------------------------------------
(* extract (extract.py:268-293) over the months.                           *)

\* extract.py:268-287: parse the arguments, list the months start..end.
ExtractCall(start, end, force) ==
    /\ run.pc = "idle"
    /\ run' = [pc |-> "loop", next |-> start, end |-> end, force |-> force,
               all_changed |-> FALSE]
    /\ UNCHANGED <<files, today, last, twice, fetchVars, dlVars, propVars, geoVars, convVars, etlVars, cacheVars>>

\* extract.py:288-292: one iteration of the loop; an exception of
\* process_month ends the call.
ExtractMonth ==
    /\ run.pc = "loop"
    /\ run.next <= run.end
    /\ LET month == run.next
           should_process == ShouldProcess(run.force, month)
       IN  \E new_data \in FetchesOf(files[month], should_process) :
             LET out == process_month(files[month], should_process, new_data, today)
             IN  /\ files' = [files EXCEPT ![month] = out.file]
                 /\ last' = CallOf(month, out.step, today, new_data,
                                   load_existing_data(files[month]))
                 /\ run' = IF out.step \in Raises
                           THEN Idle
                           ELSE [run EXCEPT !.next = month + 1,
                                            !.all_changed = run.all_changed \/ (out.step = "written")]
    /\ UNCHANGED <<today, twice, fetchVars, dlVars, propVars, geoVars, convVars, etlVars, cacheVars>>

\* extract.py:293
ExtractReturn ==
    /\ run.pc = "loop"
    /\ run.next > run.end
    /\ run' = Idle
    /\ UNCHANGED <<files, today, last, twice, fetchVars, dlVars, propVars, geoVars, convVars, etlVars, cacheVars>>

\* The period files the extract specification starts from: none, or one
\* resolved row.
ExtractSeeds ==
    {NoFile} \cup
    { [exists |-> TRUE,
       rows |-> << [_id |-> 1, address |-> a, resale_price |-> 100, postal |-> "p1",
                    latitude |-> "lat1", longitude |-> "lon1", _ts |-> "2024-05-01"] >>] :
        a \in Addresses }

InitExtract ==
    /\ \E m0 \in Months : \E f \in ExtractSeeds :
          files = [m \in Months |-> IF m = m0 THEN f ELSE NoFile]
    /\ today \in FirstDay
    /\ run = Idle
    /\ last = NoCall
    /\ twice = NoPair
    /\ pager = NoPager
    /\ metadata = NoMetadata
    /\ datafiles = NoDataFiles
    /\ dl = NoDownload
    /\ table = NoTable
    /\ upd = NoUpdate
    /\ pool = NoPool
    /\ csv = <<>>
    /\ parquet = NoParquet
    /\ etl = NoEtl
    /\ lookups = NoLookups

NextExtract ==
    \/ \E start, end \in Months : \E force \in BOOLEAN : ExtractCall(start, end, force)
    \/ ExtractMonth
    \/ ExtractReturn

SpecExtract == InitExtract /\ [][NextExtract]_vars

--------------------------------------------------------------------------
(* fetch_data_gov_sg (datagov.py:20-62).  The dataset holds the records    *)
(* 1..total; a search at (offset, limit) that succeeds returns the next at *)
(* most limit of them.                                                     *)

Min(a, b) == IF a < b THEN a ELSE b

\* The page the search API returns for params (datagov.py:40-44).
Page(offset, limit, total) ==
    [i \in 1..Min(limit, IF total > offset THEN total - offset ELSE 0) |-> offset + i]

\* Mutant of last_page: a full page ends the pagination too.
last_page_full(records, limit) == Len(records) <= limit

\* datagov.py:53: fewer records than the limit, the end of the dataset.
last_page(records, limit) == Len(records) < limit

\* Mutant of page_failed: the records accumulated so far are dropped.
page_failed_drops(all_records) == <<>>

\* datagov.py:58-62: a failed page ends the loop; what was accumulated is
\* returned.
page_failed(all_records) == all_records

\* Mutant of next_offset: the offset is not advanced.
next_offset_stuck(offset, records) == offset

\* datagov.py:56
next_offset(offset, records) == offset + Len(records)

\* datagov.py:25-36: the call, with the limit of query_params if it gives one.
FetchCall(total, limit) ==
    /\ pager.pc \in {"idle", "done"}
    /\ pager' = [pc |-> "loop", total |-> total, limit |-> limit, offset |-> 0,
                 all_records |-> <<>>, requests |-> 0, failed |-> FALSE]
    /\ UNCHANGED <<mergeVars, dlVars, propVars, geoVars, convVars, etlVars, cacheVars>>

\* datagov.py:40-56: one iteration whose request succeeds.
FetchPage ==
    /\ pager.pc = "loop"
    /\ LET records == Page(pager.offset, pager.limit, pager.total)
       IN  pager' =
             IF records = <<>>
             THEN [pager EXCEPT !.requests = @ + 1, !.pc = "done"]            \* :46-47
             ELSE IF last_page(records, pager.limit)
             THEN [pager EXCEPT !.requests = @ + 1, !.pc = "done",
                                !.all_records = @ \o records]                 \* :49-54
             ELSE [pager EXCEPT !.requests = @ + 1,
                                !.all_records = @ \o records,
                                !.offset = next_offset(@, records)]           \* :56
    /\ UNCHANGED <<mergeVars, dlVars, propVars, geoVars, convVars, etlVars, cacheVars>>

\* datagov.py:58-60: one iteration whose request fails (a network error, an
\* HTTP error status, a body that is no JSON object).
FetchPageFails ==
    /\ pager.pc = "loop"
    /\ pager' = [pager EXCEPT !.requests = @ + 1, !.pc = "done", !.failed = TRUE,
                              !.all_records = page_failed(@)]
    /\ UNCHANGED <<mergeVars, dlVars, propVars, geoVars, convVars, etlVars, cacheVars>>

InitFetch ==
    /\ files = [m \in Months |-> NoFile]
    /\ today \in FirstDay
    /\ run = Idle
    /\ last = NoCall
    /\ twice = NoPair
    /\ pager = NoPager
    /\ metadata = NoMetadata
    /\ datafiles = NoDataFiles
    /\ dl = NoDownload
    /\ table = NoTable
    /\ upd = NoUpdate
    /\ pool = NoPool
    /\ csv = <<>>
    /\ parquet = NoParquet
    /\ etl = NoEtl
    /\ lookups = NoLookups

NextFetch ==
    \/ \E total \in 0..MaxRecords : \E limit \in 1..MaxLimit : FetchCall(total, limit)
    \/ FetchPage
    \/ FetchPageFails

SpecFetch == InitFetch /\ [][NextFetch]_vars

\* The loop of a call runs on: its body is straight-line code, and the
\* request of an iteration (:40) is answered or fails.
SpecFetchLive == SpecFetch /\ WF_vars(FetchPage \/ FetchPageFails)

--------------------------------------------------------------------------
(* download_dataset (datagov.py:65-209), called on its own: without an     *)
(* existing_metadata_dict, as a standalone dataset or with a               *)
(* collection_name. metadata and datafiles are those of base_path.         *)

\* collection_name: none given (datagov.py:99-100), or one of the caller's.
CollectionNames == {"Standalone Datasets", "Custom"}

\* datagov.py:110-119: the stored metadata; none if metadata.json is absent
\* or cannot be parsed.
load_metadata(md) ==
    IF md.state = "ok" THEN md.entries ELSE [d \in Datasets |-> NoEntry]

\* datagov.py:114-116: json.load raises what the except clause does not
\* name when the bytes of metadata.json are no text (UnicodeDecodeError, a
\* ValueError that is no JSONDecodeError).
load_raises(md) == md.state = "undecodable"

\* datagov.py:135-136
existing_ts_of(dict, d) ==
    IF dict[d].present THEN dict[d].lastUpdatedAt ELSE NoStamp

\* Mutant of up_to_date: only a strictly newer local version is current.
up_to_date_strict(dt_existing, dt_current) == dt_existing.t > dt_current.t

\* datagov.py:150
up_to_date(dt_existing, dt_current) == dt_existing.t >= dt_current.t

\* datagov.py:140-155: what the comparison of the timestamps decides:
\* "skip", "download", or "TypeError" when an aware and a naive datetime
\* are compared.
check_update(existing_ts, current_ts) ==
    IF existing_ts.kind # "none" /\ current_ts.kind # "none"           \* :141
    THEN IF existing_ts.kind = "bad" \/ current_ts.kind = "bad"
         THEN "download"                                               \* :154-155
         ELSE IF existing_ts.kind # current_ts.kind
         THEN "TypeError"
         ELSE IF up_to_date(existing_ts, current_ts)
         THEN "skip"                                                   \* :150-152
         ELSE "download"
    ELSE "download"

\* Mutant of unexpected: the exception reaches the caller.
unexpected_raised(exception) == exception

\* datagov.py:204-206: an exception no inner handler names is caught and
\* the call returns status "error".
unexpected(exception) == "error"

\* datagov.py:195: metadata.json is written by a standalone call only.
saves_metadata(collection_name) == collection_name = "Standalone Datasets"

\* The responses of the three requests and of the write of metadata.json.
MetaResponses == {[ok |-> FALSE, ts |-> NoStamp]} \cup [ok : {TRUE}, ts : TsVals]
PollResponses == {"fail", "nourl", "ok"}
FileResponses == {"fail", "ok"}

\* The call gets as far as the metadata request (datagov.py:124).
reaches_metadata(passed, md) == passed.given \/ ~load_raises(md)

\* The dict the call works on: the caller's, or the stored one (:110-119).
metadata_dict(passed, md) == IF passed.given THEN passed.dict ELSE load_metadata(md)

\* The call gets as far as the poll-download request (datagov.py:162).
reaches_download(passed, md, d, meta) ==
    /\ reaches_metadata(passed, md)
    /\ meta.ok
    /\ check_update(existing_ts_of(metadata_dict(passed, md), d), meta.ts) = "download"

\* No existing_metadata_dict is passed.
NoDict == [given |-> FALSE, dict |-> [d \in Datasets |-> NoEntry]]

\* download_dataset(d, collection_name=..., existing_metadata_dict=...):
\* the status it returns, the dict it leaves to its caller, and the
\* metadata.json and the data files it leaves.
download_dataset(collection_name, passed, d, md, df, meta, poll, file, saved) ==
    LET dict == metadata_dict(passed, md)
        existing_ts == existing_ts_of(dict, d)
        unchanged(status, polled) ==
            [status |-> status, dict |-> dict, metadata |-> md, datafiles |-> df,
             polled |-> polled, wrote |-> FALSE]
        updated == [dict EXCEPT ![d] = [present |-> TRUE, lastUpdatedAt |-> meta.ts]]
    IN  IF ~reaches_metadata(passed, md)
        THEN unchanged(unexpected("UnicodeDecodeError"), FALSE)        \* :115, :204-206
        ELSE IF ~meta.ok THEN unchanged("error", FALSE)                \* :127-129
        ELSE IF check_update(existing_ts, meta.ts) = "TypeError"
        THEN unchanged(unexpected("TypeError"), FALSE)                 \* :150, :204-206
        ELSE IF check_update(existing_ts, meta.ts) = "skip"
        THEN unchanged("skipped", FALSE)                               \* :152
        ELSE IF poll # "ok" THEN unchanged("error", TRUE)              \* :167-169, :186
        ELSE IF file # "ok" THEN unchanged("error", TRUE)              \* :186-188
        ELSE [status |-> "success",                                    \* :202
              dict |-> updated,                                        \* :193
              metadata |->
                 IF saves_metadata(collection_name) /\ saved           \* :195-200
                 THEN [state |-> "ok", entries |-> updated]
                 ELSE md,
              datafiles |-> [df EXCEPT ![d] = TRUE],                   \* :182-183
              polled |-> TRUE, wrote |-> TRUE]

\* The stage of a call that failed, if one did.
FailureOf(passed, md, d, meta, poll, file) ==
    IF ~reaches_metadata(passed, md) THEN "load"
    ELSE IF ~meta.ok THEN "metadata"
    ELSE IF check_update(existing_ts_of(metadata_dict(passed, md), d), meta.ts) = "TypeError"
    THEN "compare"
    ELSE IF poll = "fail" THEN "poll"
    ELSE IF poll = "nourl" THEN "nourl"
    ELSE IF file = "fail" THEN "file"
    ELSE "none"

\* A call of download_dataset(d, collection_name=...); a request that is
\* not reached gets no response.
DownloadDataset(collection_name, d) ==
    \E meta \in IF reaches_metadata(NoDict, metadata) THEN MetaResponses
                ELSE {[ok |-> FALSE, ts |-> NoStamp]} :
    \E poll \in IF reaches_download(NoDict, metadata, d, meta)
                THEN PollResponses ELSE {"none"} :
    \E file \in IF poll = "ok" THEN FileResponses ELSE {"none"} :
    \E saved \in IF file = "ok" /\ saves_metadata(collection_name)
                 THEN BOOLEAN ELSE {FALSE} :
        LET out == download_dataset(collection_name, NoDict, d, metadata, datafiles,
                                    meta, poll, file, saved)
        IN  /\ metadata' = out.metadata
            /\ datafiles' = out.datafiles
            /\ dl' = [dataset |-> d, status |-> out.status,
                      failure |-> FailureOf(NoDict, metadata, d, meta, poll, file),
                      fetched |-> (reaches_metadata(NoDict, metadata) /\ meta.ok),
                      current_ts |-> meta.ts, polled |-> out.polled,
                      clean |-> (poll = "ok" /\ file = "ok"), wrote |-> out.wrote]
            /\ UNCHANGED <<mergeVars, fetchVars, propVars, geoVars, convVars, etlVars, cacheVars>>

InitDownload ==
    /\ files = [m \in Months |-> NoFile]
    /\ today \in FirstDay
    /\ run = Idle
    /\ last = NoCall
    /\ twice = NoPair
    /\ pager = NoPager
    /\ metadata \in [state : {"absent", "corrupt", "undecodable"},
                     entries : {[d \in Datasets |-> NoEntry]}]
                    \cup [state : {"ok"}, entries : [Datasets -> Entries]]
    /\ datafiles = NoDataFiles
    /\ dl = NoDownload
    /\ table = NoTable
    /\ upd = NoUpdate
    /\ pool = NoPool
    /\ csv = <<>>
    /\ parquet = NoParquet
    /\ etl = NoEtl
    /\ lookups = NoLookups

NextDownload ==
    \E collection_name \in CollectionNames, d \in Datasets :
        DownloadDataset(collection_name, d)

SpecDownload == InitDownload /\ [][NextDownload]_vars

--------------------------------------------------------------------------
(* update_property_info (property_info.py:63-144).                         *)
(* A file is its columns and its rows: "raw" columns are those of the      *)
(* downloaded dataset, blk_no and street among them; "bad" columns lack    *)
(* blk_no or street; "full" columns are the raw ones with address, postal, *)
(* latitude and longitude. A row carries blk, its blk_no and street, from  *)
(* which its address is made (:98).                                        *)

Years == {1, 2}                     \* year_completed, an attribute of a row

Unresolved == [postal |-> NaN, latitude |-> NaN, longitude |-> NaN]
Resolved == [postal |-> "p1", latitude |-> "lat1", longitude |-> "lon1"]

InfoRow(a, y, c) ==
    [blk |-> a, address |-> a, year_completed |-> y,
     postal |-> c.postal, latitude |-> c.latitude, longitude |-> c.longitude]

\* The rows of a downloaded file; a row of a file without blk_no or street
\* has no address.
RawRows == { InfoRow(a, y, Unresolved) : a \in Addresses, y \in Years }
BadRow == InfoRow(NaN, 1, Unresolved)

\* What download_collection leaves at file_path: the file as it was, or the
\* downloaded one (datagov.py:182-183).
Downloads ==
    {[wrote |-> FALSE, file |-> NoTable]}
        \cup [wrote : {TRUE},
              file : [exists : {TRUE}, columns : {"raw"},
                      rows : SeqsUpTo(RawRows, MaxRows)]
                     \cup {[exists |-> TRUE, columns |-> "bad", rows |-> <<BadRow>>]}]

\* The primary geocoder's answer for an address: no result, a result, or a
\* failed request.
GeoResponses == {"none", "result", "error"}

\* property_info.py:76-84
known_coords(f) ==
    IF f.exists /\ f.columns = "full" THEN drop_duplicates_address(f.rows) ELSE <<>>

\* Mutant of drop_duplicates_last: keep="first".
drop_duplicates_first(rows) ==
    SubSeqAt(rows, { i \in DOMAIN rows :
                        \A j \in 1..(i - 1) : rows[j].address # rows[i].address })

\* DataFrame.drop_duplicates(subset=["address"], keep="last")
drop_duplicates_last(rows) ==
    SubSeqAt(rows, { i \in DOMAIN rows :
                        \A j \in (i + 1)..Len(rows) : rows[j].address # rows[i].address })

\* property_info.py:105-110: the rows of both tables, the last one of each
\* address, with the known coordinates of its address.
merged_data(existing_df, new_data, known) ==
    LET latest == drop_duplicates_last(existing_df \o new_data)
        coords(a) ==
            IF \E k \in DOMAIN known : known[k].address = a
            THEN LET k == CHOOSE k \in DOMAIN known : known[k].address = a
                 IN  [postal |-> known[k].postal, latitude |-> known[k].latitude,
                      longitude |-> known[k].longitude]
            ELSE Unresolved
    IN  [i \in DOMAIN latest |->
            [latest[i] EXCEPT !.postal = coords(latest[i].address).postal,
                              !.latitude = coords(latest[i].address).latitude,
                              !.longitude = coords(latest[i].address).longitude]]

\* property_info.py:113
missing_mask(merged) == { i \in DOMAIN merged : merged[i].latitude = NaN }

\* property_info.py:114-118
addresses_to_geocode(merged) ==
    { merged[i].address : i \in missing_mask(merged) } \ {NaN}

\* geocoding.py:25-45, :58-65: a lookup with a result raises TypeError at
\* :28 (the results are a list), a failed request raises at :25, and the
\* batch raises what a lookup raised.
get_map_results_raises(todo, geo) == \E a \in todo : geo[a] # "none"

\* geocoding.py:39-45, :67: the rows of a batch that did not raise.
get_map_results(todo) == [a \in todo |-> Unresolved]

\* property_info.py:123-129
fill_missing(merged, fresh) ==
    [i \in DOMAIN merged |->
        IF i \in missing_mask(merged)
        THEN LET c == IF merged[i].address \in DOMAIN fresh
                      THEN fresh[merged[i].address] ELSE Unresolved
             IN  [merged[i] EXCEPT !.postal = c.postal, !.latitude = c.latitude,
                                   !.longitude = c.longitude]
        ELSE merged[i]]

\* property_info.py:77-79, :105: the rows of the table as they enter the
\* concat; those of a table without an address column have none.
existing_rows(f) ==
    IF ~f.exists THEN <<>>
    ELSE IF f.columns = "full" THEN f.rows
    ELSE [i \in DOMAIN f.rows |-> [f.rows[i] EXCEPT !.address = NaN]]

\* property_info.py:88, :98: the rows read back from file_path, their
\* address made of blk_no and street.
read_new_data(disk) ==
    [i \in DOMAIN disk.rows |-> [disk.rows[i] EXCEPT !.address = disk.rows[i].blk]]

\* update_property_info(): how it ends and the file it leaves.
update_property_info(f, dnl, geo) ==
    LET existing_df == existing_rows(f)                                \* :77-79
        known == known_coords(f)
        disk == IF dnl.wrote THEN dnl.file ELSE f                      \* :87
        new_data == read_new_data(disk)                                \* :88, :98
        merged == merged_data(existing_df, new_data, known)
        todo == addresses_to_geocode(merged)
        ends(step) == [step |-> step, table |-> disk, geocoded |-> {},
                       new_data |-> <<>>]
    IN  IF ~disk.exists THEN ends("FileNotFoundError")                 \* :88
        ELSE IF new_data = <<>> THEN ends("nodata")                    \* :89-91
        ELSE IF disk.columns = "bad" THEN ends("nocolumns")            \* :94-96
        ELSE IF todo # {} /\ get_map_results_raises(todo, geo)         \* :122
        THEN [step |-> "raised", table |-> disk, geocoded |-> todo, new_data |-> <<>>]
        ELSE [step |-> "written",                                      \* :141
              table |-> [exists |-> TRUE, columns |-> "full",
                         rows |-> IF todo # {}
                                  THEN fill_missing(merged, get_map_results(todo))
                                  ELSE merged],
              geocoded |-> todo,
              new_data |-> IF dnl.wrote THEN new_data ELSE <<>>]

\* A call of update_property_info().
UpdatePropertyInfo ==
    \E dnl \in Downloads, geo \in [Addresses -> GeoResponses] :
        \E out \in { update_property_info(table, dnl, geo) } :
            /\ table' = out.table
            /\ upd' = [step |-> out.step, replaced |-> dnl.wrote,
                       geocoded |-> out.geocoded, downloaded |-> out.new_data]
            /\ UNCHANGED <<mergeVars, fetchVars, dlVars, geoVars, convVars, etlVars, cacheVars>>

\* The reference table before the first call: none, or one row per address,
\* with the coordinates resolved so far.
PropertySeeds ==
    {NoTable}
        \cup { [exists |-> TRUE, columns |-> "full", rows |-> r] :
                 r \in { q \in SeqsUpTo({ InfoRow(a, 1, c) : a \in Addresses,
                                             c \in {Unresolved, Resolved} }, MaxRows) :
                           \A i, j \in DOMAIN q : i # j => q[i].address # q[j].address } }

InitProperty ==
    /\ files = [m \in Months |-> NoFile]
    /\ today \in FirstDay
    /\ run = Idle
    /\ last = NoCall
    /\ twice = NoPair
    /\ pager = NoPager
    /\ metadata = NoMetadata
    /\ datafiles = NoDataFiles
    /\ dl = NoDownload
    /\ table \in PropertySeeds
    /\ upd = NoUpdate
    /\ pool = NoPool
    /\ csv = <<>>
    /\ parquet = NoParquet
    /\ etl = NoEtl
    /\ lookups = NoLookups

NextProperty == UpdatePropertyInfo

SpecProperty == InitProperty /\ [][NextProperty]_vars

--------------------------------------------------------------------------
(* get_map_results and fetch_map_data, of geocoding.py (:18-67) and of     *)
(* extract.py (:57-99). A call submits one lookup per distinct address to  *)
(* a ThreadPoolExecutor and collects the results through executor.map.     *)

Modules == {"geocoding", "extract"}
Queries == {"A", "B", "C"}          \* the addresses of a batch
None == "None"                      \* Python's None

\* len(str(postal_code)) for the postal codes of the model; str(None) is
\* "None".
str_len(postal_code) ==
    IF postal_code = None THEN 4
    ELSE IF postal_code = "0" THEN 1
    ELSE 6

\* The primary geocoder's answer to a search: a failed request (a network
\* error, a timeout, a body that is no JSON), no result, or a first result.
NoPrimary == [kind |-> "unasked", postal |-> None, latitude |-> None, longitude |-> None]
PrimaryResponses ==
    [kind : {"error", "none"}, postal : {None}, latitude : {None}, longitude : {None}]
        \cup [kind : {"result"}, postal : {"560123", "0", None},
              latitude : {"lat1"}, longitude : {"lon1"}]

\* The secondary geocoder's answer: a postcode, or None without a result.
OsmResponses == {"650321", None}

\* geocoding.py:30, extract.py:69
needs_osm(postal_code) == str_len(postal_code) < 6

GeoRow(a, postal, latitude, longitude) ==
    [address |-> a, postal |-> postal, latitude |-> latitude, longitude |-> longitude]

\* fetch_map_data(query_address, session): the exception it raises or the
\* row it returns, and whether it queried the secondary geocoder.
fetch_map_data(module, query_address, primary, osm) ==
    LET raises(e) == [exception |-> e, osm_queried |-> FALSE,
                      row |-> GeoRow(query_address, None, None, None)]
        returns(postal, asked) ==
            [exception |-> "none", osm_queried |-> asked,
             row |-> GeoRow(query_address, postal, primary.latitude, primary.longitude)]
    IN  IF primary.kind = "error" THEN raises("RequestException")  \* geocoding.py:25, extract.py:64
        ELSE IF module = "geocoding"
        THEN IF primary.kind = "none"
             THEN returns(None, FALSE)                             \* geocoding.py:39-45
             \* geocoding.py:28: response is the list of results
             ELSE raises("TypeError")
        ELSE IF primary.kind = "none"
             \* extract.py:64: ["results"][0] of an empty list
             THEN raises("IndexError")
             ELSE IF needs_osm(primary.postal)                     \* extract.py:69-70
             THEN returns(osm, TRUE)
             ELSE returns(primary.postal, FALSE)                   \* extract.py:72-77

\* Mutant of unique_address: every row of the input is looked up.
every_address(data) == data

\* geocoding.py:54, extract.py:86: list(dict.fromkeys(data["address"]))
unique_address(data) ==
    SubSeqAt(data, { i \in DOMAIN data : \A j \in 1..(i - 1) : data[j] # data[i] })

\* A submitted lookup (a future of the pool).
Queued(a) ==
    [address |-> a, state |-> "queued", primary |-> NoPrimary, osm |-> None,
     osm_queried |-> FALSE, exception |-> "none", row |-> GeoRow(a, None, None, None)]

Running(futures) == { i \in DOMAIN futures : futures[i].state = "running" }

\* Mutant of joined: the call does not wait for its workers.
joined_nowait(futures) == TRUE

\* geocoding.py:57, extract.py:89: leaving the with block waits for the
\* workers (shutdown(wait=True)).
joined(futures) == Running(futures) = {}

\* geocoding.py:54-60: the call; executor.map submits every lookup.
GetMapResults(module, data) ==
    /\ pool.pc = "idle"
    /\ pool' = [pc |-> "collecting", module |-> module, data |-> data,
                futures |-> [i \in DOMAIN unique_address(data) |->
                                Queued(unique_address(data)[i])],
                collected |-> 0, results |-> <<>>, overtaken |-> FALSE]
    /\ UNCHANGED <<mergeVars, fetchVars, dlVars, propVars, convVars, etlVars, cacheVars>>

\* A free worker takes the next lookup of the queue.
LookupStart ==
    /\ pool.pc = "collecting"
    /\ Cardinality(Running(pool.futures)) < MaxWorkers
    /\ \E i \in DOMAIN pool.futures :
          /\ pool.futures[i].state = "queued"
          /\ \A j \in 1..(i - 1) : pool.futures[j].state # "queued"
          /\ pool' = [pool EXCEPT !.futures[i].state = "running"]
    /\ UNCHANGED <<mergeVars, fetchVars, dlVars, propVars, convVars, etlVars, cacheVars>>

\* A running lookup ends: fetch_map_data returns or raises.
LookupFinish(i) ==
    /\ pool.pc \in {"collecting", "unwinding"}
    /\ i \in Running(pool.futures)
    /\ \E primary \in PrimaryResponses :
       \E osm \in IF pool.module = "extract" /\ primary.kind = "result"
                     /\ needs_osm(primary.postal)
                  THEN OsmResponses ELSE {None} :
          LET out == fetch_map_data(pool.module, pool.futures[i].address, primary, osm)
          IN  pool' = [pool EXCEPT
                  !.futures[i] =
                      [address |-> @.address,
                       state |-> IF out.exception = "none" THEN "done" ELSE "failed",
                       primary |-> primary, osm |-> osm,
                       osm_queried |-> out.osm_queried,
                       exception |-> out.exception, row |-> out.row],
                  !.overtaken = @ \/ \E j \in 1..(i - 1) : j \in Running(pool.futures)]
    /\ UNCHANGED <<mergeVars, fetchVars, dlVars, propVars, convVars, etlVars, cacheVars>>

\* list(executor.map(...)) takes the result of the next lookup in the order
\* of submission; the exception of a failed one is raised, and the lookups
\* not yet started are cancelled.
Collect ==
    /\ pool.pc = "collecting"
    /\ pool.collected < Len(pool.futures)
    /\ LET f == pool.futures[pool.collected + 1]
       IN  \/ /\ f.state = "done"
              /\ pool' = [pool EXCEPT !.collected = @ + 1,
                                      !.results = Append(@, f.row)]
           \/ /\ f.state = "failed"
              /\ pool' = [pool EXCEPT
                      !.pc = "unwinding",
                      !.futures = [i \in DOMAIN @ |->
                                     IF @[i].state = "queued"
                                     THEN [@[i] EXCEPT !.state = "cancelled"]
                                     ELSE @[i]]]
    /\ UNCHANGED <<mergeVars, fetchVars, dlVars, propVars, convVars, etlVars, cacheVars>>

\* geocoding.py:67, extract.py:99: the call returns the rows collected.
Return ==
    /\ pool.pc = "collecting"
    /\ pool.collected = Len(pool.futures)
    /\ joined(pool.futures)
    /\ pool' = [pool EXCEPT !.pc = "returned"]
    /\ UNCHANGED <<mergeVars, fetchVars, dlVars, propVars, convVars, etlVars, cacheVars>>

\* The exception of a lookup leaves the call.
Raise ==
    /\ pool.pc = "unwinding"
    /\ joined(pool.futures)
    /\ pool' = [pool EXCEPT !.pc = "raised"]
    /\ UNCHANGED <<mergeVars, fetchVars, dlVars, propVars, convVars, etlVars, cacheVars>>

InitGeocode ==
    /\ files = [m \in Months |-> NoFile]
    /\ today \in FirstDay
    /\ run = Idle
    /\ last = NoCall
    /\ twice = NoPair
    /\ pager = NoPager
    /\ metadata = NoMetadata
    /\ datafiles = NoDataFiles
    /\ dl = NoDownload
    /\ table = NoTable
    /\ upd = NoUpdate
    /\ pool = NoPool
    /\ csv = <<>>
    /\ parquet = NoParquet
    /\ etl = NoEtl
    /\ lookups = NoLookups

NextGeocode ==
    \/ \E module \in Modules, data \in SeqsUpTo(Queries, MaxBatch) :
          GetMapResults(module, data)
    \/ LookupStart
    \/ \E i \in 1..MaxBatch : LookupFinish(i)
    \/ Collect
    \/ Return
    \/ Raise

SpecGeocode == InitGeocode /\ [][NextGeocode]_vars

--------------------------------------------------------------------------
(* csv_to_parquet and convert_lease (convert.py:9-65). Amounts that are    *)
(* no integers are kept as integers of a fixed scale: E4 is ten-           *)
(* thousandths, x100 is hundredths.                                        *)

Lease60 == 60                       \* convert.py:10, :12
Lease80 == 80                       \* convert.py:12, :14
Lease99 == 99                       \* convert.py:14
SqftPerSqmE4 == 107639              \* convert.py:43-44: 10.7639

\* Mutant of convert_lease: the upper bounds are exclusive.
convert_lease_exclusive(x) ==
    IF 0 < x /\ x < Lease60 THEN "0-60 years"
    ELSE IF Lease60 <= x /\ x < Lease80 THEN "61-80 years"
    ELSE IF Lease80 <= x /\ x < Lease99 THEN "81-99 years"
    ELSE "UnboundLocalError"

\* convert.py:9-16; no branch binds result for x <= 0 or x > 99.
convert_lease(x) ==
    IF 0 < x /\ x <= Lease60 THEN "0-60 years"
    ELSE IF Lease60 < x /\ x <= Lease80 THEN "61-80 years"
    ELSE IF Lease80 < x /\ x <= Lease99 THEN "81-99 years"
    ELSE "UnboundLocalError"

\* convert.py:28-30: the first run of digits of "<N> years [<M> months]".
remaining_lease_years(remaining_lease) == remaining_lease.years

\* Mutant of cast_int: the cast rounds to the nearest integer.
cast_int_rounded(xE4) == (xE4 + 5000) \div 10000

\* convert.py:43: cast(pl.Int16) of a non-negative float drops its fraction.
cast_int(xE4) == xE4 \div 10000

\* The digits of n / d, as far as the k-th decimal place.
RECURSIVE RemE(_, _, _)
RemE(n, d, k) == IF k = 0 THEN n % d ELSE (10 * RemE(n, d, k - 1)) % d
RECURSIVE DivE(_, _, _)
DivE(n, d, k) ==
    IF k = 0 THEN n \div d
    ELSE 10 * DivE(n, d, k - 1) + (10 * RemE(n, d, k - 1)) \div d

\* convert.py:43
floor_area_sqft(floor_area_sqm) == cast_int(floor_area_sqm * SqftPerSqmE4)

\* convert.py:44: resale_price / (floor_area_sqm * 10.7639), in hundredths.
psf_x100(resale_price, floor_area_sqm) ==
    DivE(resale_price, floor_area_sqm * SqftPerSqmE4, 6)

\* The remaining leases of the sample flats, in years.
LeaseSamples == <<0, 1, 60, 61, 80, 81, 99, 100>>

\* The rows of the period files: a sample flat, first seen on some day.
CsvRows ==
    { [_id |-> k,
       remaining_lease |-> [years |-> LeaseSamples[k], months |-> 4],
       floor_area_sqm |-> IF k % 2 = 1 THEN 90 ELSE 67,
       resale_price |-> IF k % 2 = 1 THEN 450000 ELSE 300000,
       _ts |-> t] : k \in DOMAIN LeaseSamples, t \in Dates }

\* convert.py:26-46: a row with its derived columns.
Derived(r) ==
    [_id |-> r._id, remaining_lease |-> r.remaining_lease,
     floor_area_sqm |-> r.floor_area_sqm, resale_price |-> r.resale_price,
     _ts |-> r._ts,
     remaining_lease_years |-> remaining_lease_years(r.remaining_lease),
     cat_remaining_lease_years |->
         convert_lease(remaining_lease_years(r.remaining_lease)),
     floor_area_sqft |-> floor_area_sqft(r.floor_area_sqm),
     psf_x100 |-> psf_x100(r.resale_price, r.floor_area_sqm)]

\* Mutant of unique: rows are told apart by their _id alone.
unique_by_id(rows) ==
    { r \in Range(rows) :
        \A i \in DOMAIN rows :
           rows[i]._id = r._id
              => \E j \in 1..i : rows[j] = r /\ \A h \in 1..(j - 1) : rows[h]._id # r._id }

\* convert.py:25: DataFrame.unique(), the distinct rows in no given order.
unique(rows) == Range(rows)

\* The orders in which a set of rows can be laid out.
RECURSIVE Orders(_)
Orders(S) ==
    IF S = {} THEN { <<>> }
    ELSE UNION { { <<x>> \o p : p \in Orders(S \ {x}) } : x \in S }

\* convert.py:63: sort(by="_ts"); rows of one _ts come in any order.
sort_by_ts(S) ==
    { p \o q : p \in Orders({ r \in S : r._ts = "2024-05-01" }),
               q \in Orders({ r \in S : r._ts = "2024-05-02" }) }

\* A call of csv_to_parquet(): it raises when no file matches data/*.csv
\* (:23) or when convert_lease raises for a row (:37), and writes
\* df.parquet otherwise (:64).
CsvToParquet ==
    /\ LET df == unique(csv)
       IN  IF csv = <<>>
           THEN parquet' = [parquet EXCEPT !.raised = "ComputeError"]
           ELSE IF \E r \in df : Derived(r).cat_remaining_lease_years = "UnboundLocalError"
           THEN parquet' = [parquet EXCEPT !.raised = "UnboundLocalError"]
           ELSE \E rows \in sort_by_ts({ Derived(r) : r \in df }) :
                   parquet' = [exists |-> TRUE, rows |-> rows, raised |-> "none"]
    /\ UNCHANGED <<csv, mergeVars, fetchVars, dlVars, propVars, geoVars, etlVars, cacheVars>>

InitConvert ==
    /\ files = [m \in Months |-> NoFile]
    /\ today \in FirstDay
    /\ run = Idle
    /\ last = NoCall
    /\ twice = NoPair
    /\ pager = NoPager
    /\ metadata = NoMetadata
    /\ datafiles = NoDataFiles
    /\ dl = NoDownload
    /\ table = NoTable
    /\ upd = NoUpdate
    /\ pool = NoPool
    /\ csv \in SeqsUpTo(CsvRows, MaxCsv)
    /\ parquet = NoParquet
    /\ etl = NoEtl
    /\ lookups = NoLookups

NextConvert == CsvToParquet

SpecConvert == InitConvert /\ [][NextConvert]_vars

--------------------------------------------------------------------------
(* update_data (etl.py:11-24). The run reads the period files of           *)
(* data/<subdir> for the latest month they hold (:13-16), calls extract    *)
(* from that month to the current one with --force (:17), and on a change  *)
(* calls csv_to_parquet and writes data/<subdir>/metadata (:18-23).        *)
(* extract works on data/ (extract.py:275), so the latest month of         *)
(* data/<subdir> is an input of the run; 0 stands for no file there.       *)

\* etl.py:13-16: read_csv raises when no file matches 20*.csv.
read_raises(latest) == latest = 0

\* etl.py:19: csv_to_parquet is called with one argument and takes none
\* (convert.py:19), so the call raises before the function is entered.
call_csv_to_parquet(subdir) == "TypeError"

\* Mutant of after_extract: the metadata is written whether or not extract
\* reported a change.
after_extract_unconditional(has_changed) ==
    IF has_changed /\ call_csv_to_parquet("Resale Flat Prices") = "TypeError"
    THEN [pc |-> "raised", compacted |-> FALSE, metadata |-> "old",
          exception |-> "TypeError"]
    ELSE [pc |-> "exited", compacted |-> has_changed, metadata |-> "new",
          exception |-> "none"]

\* etl.py:18-24: what follows the return of extract: the recompaction and
\* the write of the metadata on a change, then sys.exit(0).
after_extract(has_changed) ==
    IF ~has_changed
    THEN [pc |-> "exited", compacted |-> FALSE, metadata |-> "old",
          exception |-> "none"]                                   \* :24
    ELSE IF call_csv_to_parquet("Resale Flat Prices") = "TypeError"
    THEN [pc |-> "raised", compacted |-> FALSE, metadata |-> "old",
          exception |-> "TypeError"]                              \* :19
    ELSE [pc |-> "exited", compacted |-> TRUE, metadata |-> "new",
          exception |-> "none"]                                   \* :19-24

\* etl.py:11-17: the start of a run, as far as the call of extract.
UpdateData(latest) ==
    /\ etl.pc = "idle"
    /\ run.pc = "idle"
    /\ IF read_raises(latest)
       THEN /\ etl' = [pc |-> "raised", start |-> latest, has_changed |-> FALSE,
                       compacted |-> FALSE, metadata |-> "old",
                       exception |-> "ComputeError"]
            /\ run' = run
       ELSE /\ etl' = [pc |-> "extract", start |-> latest, has_changed |-> FALSE,
                       compacted |-> FALSE, metadata |-> "old", exception |-> "none"]
            /\ run' = [pc |-> "loop", next |-> latest, end |-> current_month,
                       force |-> TRUE, all_changed |-> FALSE]
    /\ UNCHANGED <<files, today, last, twice, fetchVars, dlVars, propVars, geoVars,
                   convVars, cacheVars>>

\* extract.py:288-292 within the run: one iteration of the loop of extract.
UpdateExtractMonth ==
    /\ etl.pc = "extract"
    /\ ExtractMonth

\* etl.py:17: an exception of process_month leaves extract and the run.
UpdateExtractRaised ==
    /\ etl.pc = "extract"
    /\ run.pc = "idle"
    /\ etl' = [etl EXCEPT !.pc = "raised", !.exception = last.step]
    /\ UNCHANGED <<mergeVars, fetchVars, dlVars, propVars, geoVars, convVars, cacheVars>>

\* etl.py:17-24: extract returns all_changed (extract.py:293) and the run
\* goes on to its end.
UpdateFinish ==
    /\ etl.pc = "extract"
    /\ run.pc = "loop"
    /\ run.next > run.end
    /\ LET out == after_extract(run.all_changed)
       IN  etl' = [etl EXCEPT !.pc = out.pc, !.has_changed = run.all_changed,
                              !.compacted = out.compacted,
                              !.metadata = out.metadata,
                              !.exception = out.exception]
    /\ run' = Idle
    /\ UNCHANGED <<files, today, last, twice, fetchVars, dlVars, propVars, geoVars,
                   convVars, cacheVars>>

\* The period files of data/ an update run starts from: for each month
\* none, or one resolved row.
UpdateSeeds ==
    [Months -> {NoFile} \cup
               { [exists |-> TRUE,
                  rows |-> << [_id |-> 1, address |-> "A", resale_price |-> 100,
                               postal |-> "p1", latitude |-> "lat1",
                               longitude |-> "lon1", _ts |-> "2024-05-01"] >>] }]

InitUpdate ==
    /\ files \in UpdateSeeds
    /\ today \in FirstDay
    /\ run = Idle
    /\ last = NoCall
    /\ twice = NoPair
    /\ pager = NoPager
    /\ metadata = NoMetadata
    /\ datafiles = NoDataFiles
    /\ dl = NoDownload
    /\ table = NoTable
    /\ upd = NoUpdate
    /\ pool = NoPool
    /\ csv = <<>>
    /\ parquet = NoParquet
    /\ etl = NoEtl
    /\ lookups = NoLookups

NextUpdate ==
    \/ \E latest \in 0..NumMonths : UpdateData(latest)
    \/ UpdateExtractMonth
    \/ UpdateExtractRaised
    \/ UpdateFinish

SpecUpdate == InitUpdate /\ [][NextUpdate]_vars

--------------------------------------------------------------------------
(* The geocoding lookups of process_month (extract.py:172-199) and of      *)
(* update_property_info (property_info.py:112-129). The two functions      *)
(* share no state: process_month reads and writes its period file only,    *)
(* update_property_info the reference table only. A behaviour is a series  *)
(* of calls of one of them.                                                *)

Callers == {"process_month", "update_property_info"}

\* Mutant of lookup_batch: every address of the fetch is looked up.
lookup_batch_all(new_data, existing_data) == { r.address : r \in Range(new_data) }

\* extract.py:194-196: the addresses passed to get_map_results.
lookup_batch(new_data, existing_data) == new_adresses(new_data, existing_data)

\* The addresses a call of process_month looks up: those of :196 if the
\* call gets there, which it does only with existing rows (:172, :194).
lookups_of(f, should_process, new_data, day) ==
    IF process_month(f, should_process, new_data, day).step = "KeyError"
    THEN lookup_batch(new_data, load_existing_data(f))
    ELSE {}

\* A call of process_month for a month that every run refreshes
\* (extract.py:289-290), the current one, recorded in lookups; resolved are the addresses of
\* the batch for which the geocoder has a result.
LookupProcessMonth(month) ==
    /\ lookups.caller = "process_month"
    /\ run.pc = "idle"
    /\ LET should_process == ShouldProcess(FALSE, month)
       IN  \E new_data \in FetchesOf(files[month], should_process) :
             LET out == process_month(files[month], should_process, new_data, today)
                 batch == lookups_of(files[month], should_process, new_data, today)
             IN  /\ files' = [files EXCEPT ![month] = out.file]
                 /\ \E resolved \in SUBSET batch :
                       lookups' = [caller |-> "process_month", month |-> month,
                                   step |-> out.step,
                                   fetched |-> { r.address : r \in Range(new_data) },
                                   batch |-> batch, resolved |-> resolved,
                                   before |-> lookups.before \cup lookups.resolved]
    /\ UNCHANGED <<today, run, last, twice, fetchVars, dlVars, propVars, geoVars,
                   convVars, etlVars>>

\* A call of update_property_info(); upd.geocoded are the addresses it
\* passed to get_map_results (property_info.py:122).
LookupUpdatePropertyInfo ==
    /\ lookups.caller = "update_property_info"
    /\ UpdatePropertyInfo

\* The period files a series of process_month calls starts from: none, or
\* one row, its coordinates known or missing in part.
LookupSeeds ==
    {NoFile} \cup
    { [exists |-> TRUE,
       rows |-> << [_id |-> 1, address |-> a, resale_price |-> 100,
                    postal |-> c.postal, latitude |-> c.latitude,
                    longitude |-> c.longitude, _ts |-> "2024-05-01"] >>] :
        a \in Addresses, c \in Coordinates }

InitLookup ==
    /\ \E caller \in Callers :
          /\ lookups = [NoLookups EXCEPT !.caller = caller]
          /\ IF caller = "process_month"
             THEN /\ \E f \in LookupSeeds :
                        files = [m \in Months |-> IF m = current_month THEN f
                                                  ELSE NoFile]
                  /\ table = NoTable
             ELSE /\ files = [m \in Months |-> NoFile]
                  /\ table \in PropertySeeds
    /\ today \in FirstDay
    /\ run = Idle
    /\ last = NoCall
    /\ twice = NoPair
    /\ pager = NoPager
    /\ metadata = NoMetadata
    /\ datafiles = NoDataFiles
    /\ dl = NoDownload
    /\ upd = NoUpdate
    /\ pool = NoPool
    /\ csv = <<>>
    /\ parquet = NoParquet
    /\ etl = NoEtl

NextLookup ==
    \/ LookupProcessMonth(current_month)
    \/ LookupUpdatePropertyInfo

SpecLookup == InitLookup /\ [][NextLookup]_vars

--------------------------------------------------------------------------
(* Properties of process_month, under SpecMerge.                           *)

RowsOf(m) == files[m].rows

\* C1: a record identifier that is in the period file before and after a
\* step keeps its _ts, whatever else of the record changed.
TsPreserved ==
    [][\A m \in Months :
         \A i \in DOMAIN files[m].rows : \A j \in DOMAIN files'[m].rows :
            files[m].rows[i]._id = files'[m].rows[j]._id
                => files'[m].rows[j]._ts = files[m].rows[i]._ts]_vars

\* A merge on a later day wrote the file, a record it already held was
\* revised upstream, and a row still carries the earlier date.
TsPreservedWitness ==
    /\ last.step = "written"
    /\ last.revised
    /\ last.day = "2024-05-02"
    /\ \E r \in Range(RowsOf(last.month)) : r._ts = "2024-05-01"

\* C2: a call that fetched records for a period without existing rows
\* creates the period file, every row stamped with the processing date, and
\* returns True.
FirstObservationCreates ==
    (Fetched(last.step) /\ last.nNew > 0 /\ last.nOld = 0)
        => /\ ReturnOf(last.step) = "True"
           /\ files[last.month].exists
           /\ Len(RowsOf(last.month)) = last.nNew
           /\ \A r \in Range(RowsOf(last.month)) : r._ts = last.day

\* C4: a call whose fetch is as long as the existing non-empty file returns
\* False and leaves the period files as they were.
NoOpOnEqualCount ==
    [][(Fetched(last'.step) /\ last'.nOld > 0 /\ last'.nNew = last'.nOld)
          => (last'.step = "unchanged" /\ ReturnOf(last'.step) = "False"
              /\ files' = files)]_vars

\* A call found as many records as the file holds, one of them revised
\* upstream, and returned without merging.
NoOpWitness ==
    /\ last.step = "unchanged"
    /\ last.nNew = last.nOld
    /\ last.nOld > 0
    /\ last.revised

\* C6: no two rows of a period file share an _id.
UniqueIds ==
    \A m \in Months : \A i, j \in DOMAIN RowsOf(m) :
        i # j => RowsOf(m)[i]._id # RowsOf(m)[j]._id

\* A merge wrote the file from an existing file that held an address of the
\* fetch on several rows.
UniqueIdsWitness ==
    /\ last.step = "written"
    /\ last.shared
    /\ Len(RowsOf(last.month)) = last.nNew

--------------------------------------------------------------------------
(* Properties of extract, under SpecExtract, and of a pair of calls, under *)
(* SpecTwice.                                                              *)

\* C3: when the month extract is about to process has a period file, is
\* neither the last nor the current month, and the call is not forced, the
\* step fetches nothing, leaves every period file as it was and reports the
\* month unchanged.
SkipLeavesFile ==
    [][(/\ run.pc = "loop"
        /\ run.next <= run.end
        /\ files[run.next].exists
        /\ run.next \notin {last_month, current_month}
        /\ ~run.force)
          => (/\ files' = files
              /\ last'.month = run.next
              /\ last'.step = "skip"
              /\ ~Fetched(last'.step)
              /\ ReturnOf(last'.step) = "False"
              /\ run'.all_changed = run.all_changed)]_vars

\* extract skipped an old month that has a period file.
SkipWitness ==
    /\ last.step = "skip"
    /\ files[last.month].exists
    /\ last.month < last_month
    /\ last.nOld > 0

\* C5: the second of two calls in succession on the same fetch leaves the
\* period file as the first call left it.
SecondRunChangesNothing ==
    [][(twice.pc = "second" /\ twice'.pc = "done") => files' = files]_vars

\* The first call merged and wrote the file, the second ran on the same
\* fetch.
SecondRunWitness ==
    /\ twice.pc = "done"
    /\ twice.first = "written"
    /\ Fetched(last.step)
    /\ last.nNew = Len(twice.new_data)

--------------------------------------------------------------------------
(* Properties of fetch_data_gov_sg, under SpecFetch.                       *)

\* The first n records of the dataset, in order.
FirstRecords(n) == [i \in 1..n |-> i]

\* C8: in a call no page of which failed, the offset is the number of
\* records received so far, and the call returns all records of the
\* dataset in order after exactly one request beyond the full pages.
FetchComplete ==
    /\ (pager.pc = "loop" => pager.offset = Len(pager.all_records))
    /\ (pager.pc = "done" /\ ~pager.failed)
          => /\ pager.all_records = FirstRecords(pager.total)
             /\ pager.requests = (pager.total \div pager.limit) + 1

\* A call returned after two full pages and an empty one.
FetchCompleteWitness ==
    /\ pager.pc = "done"
    /\ ~pager.failed
    /\ pager.total = 2 * pager.limit
    /\ pager.requests = 3
    /\ Len(pager.all_records) = pager.total

\* C9: a call one page of which failed returns, and returns the records of
\* the pages before it, all full.
FetchFailureKeeps ==
    (pager.pc = "done" /\ pager.failed)
        => pager.all_records = FirstRecords((pager.requests - 1) * pager.limit)

\* The third request of a call failed and the call returned two pages.
FetchFailureWitness ==
    /\ pager.pc = "done"
    /\ pager.failed
    /\ pager.requests = 3
    /\ Len(pager.all_records) = 2 * pager.limit

--------------------------------------------------------------------------
(* Properties of download_dataset, under SpecDownload.                     *)

\* The local lastUpdatedAt of the dataset of the step's call.
LocalTs(d) == existing_ts_of(load_metadata(metadata), d)

\* Both timestamps are instants of the same kind.
Comparable(a, b) == a.kind \in {"naive", "aware"} /\ a.kind = b.kind

\* C10 as stated: once the remote lastUpdatedAt is known, a call with
\* local >= remote returns "skipped" without a poll-download request, a
\* written file or a change of the metadata, and a call with local < remote
\* or without a local timestamp downloads the file and returns "success".
SkipOrSuccess ==
    [][(dl'.status # "none" /\ dl'.fetched)
          => LET local == LocalTs(dl'.dataset)
                 remote == dl'.current_ts
             IN  /\ (Comparable(local, remote) /\ local.t >= remote.t)
                        => /\ dl'.status = "skipped"
                           /\ ~dl'.polled /\ ~dl'.wrote
                           /\ metadata' = metadata /\ datafiles' = datafiles
                 /\ ((Comparable(local, remote) /\ local.t < remote.t)
                        \/ local.kind = "none")
                        => /\ dl'.status = "success"
                           /\ dl'.wrote]_vars

\* C10 as amended: the second half holds when the poll-download request
\* returns a URL and the file request succeeds; otherwise the call returns
\* "error" and writes no file.
SkipOrDownload ==
    [][(dl'.status # "none" /\ dl'.fetched)
          => LET local == LocalTs(dl'.dataset)
                 remote == dl'.current_ts
             IN  /\ (Comparable(local, remote) /\ local.t >= remote.t)
                        => /\ dl'.status = "skipped"
                           /\ ~dl'.polled /\ ~dl'.wrote
                           /\ metadata' = metadata /\ datafiles' = datafiles
                 /\ ((Comparable(local, remote) /\ local.t < remote.t)
                        \/ local.kind = "none")
                        => /\ dl'.polled
                           /\ dl'.clean => (dl'.status = "success" /\ dl'.wrote
                                            /\ datafiles'[dl'.dataset])
                           /\ ~dl'.clean => (dl'.status = "error" /\ ~dl'.wrote
                                             /\ metadata' = metadata
                                             /\ datafiles' = datafiles)]_vars

\* A call was skipped on equal timestamps for a dataset downloaded before.
SkipOrDownloadWitness ==
    /\ dl.status = "skipped"
    /\ datafiles[dl.dataset]
    /\ metadata.state = "ok"
    /\ metadata.entries[dl.dataset].lastUpdatedAt = dl.current_ts
    /\ dl.current_ts.kind = "aware"

--------------------------------------------------------------------------
(* Properties of update_property_info, under SpecProperty.                 *)

\* The non-null (latitude, longitude) pairs a file holds for an address.
KnownCoordinates(f, a) ==
    IF f.exists /\ f.columns = "full"
    THEN { <<f.rows[i].latitude, f.rows[i].longitude>> :
             i \in { j \in DOMAIN f.rows : /\ f.rows[j].address = a
                                           /\ f.rows[j].latitude # NaN
                                           /\ f.rows[j].longitude # NaN } }
    ELSE {}

\* C7: an address with a non-null latitude and longitude in the reference
\* table before a run of update_property_info has the same latitude and
\* longitude in the table after the run.
CoordinatesNeverRegress ==
    [][\A a \in Addresses :
          KnownCoordinates(table, a) \subseteq KnownCoordinates(table', a)]_vars

\* C11: after a call returned "success" for a dataset whose remote
\* lastUpdatedAt is T, metadata.json of the target directory maps the
\* dataset to T, however the call was made.
SuccessPersists ==
    [][dl'.status = "success"
          => /\ metadata'.state = "ok"
             /\ metadata'.entries[dl'.dataset].present
             /\ metadata'.entries[dl'.dataset].lastUpdatedAt = dl'.current_ts]_vars

\* C12: a call returns one of the three statuses, and a call a stage of
\* which failed (reading metadata.json, the metadata request, the
\* comparison, the poll-download request, its URL, the file request)
\* returns "error", writes no file and leaves metadata.json as it was.
NeverRaises ==
    [][dl'.status # "none"
          => /\ dl'.status \in {"success", "skipped", "error"}
             /\ dl'.failure # "none"
                   => /\ dl'.status = "error"
                      /\ ~dl'.wrote
                      /\ metadata' = metadata
                      /\ datafiles' = datafiles]_vars

\* A call failed on the comparison of an aware with a naive timestamp, for
\* a dataset downloaded before, and returned "error".
NeverRaisesWitness ==
    /\ dl.status = "error"
    /\ dl.failure = "compare"
    /\ datafiles[dl.dataset]
    /\ metadata.state = "ok"
    /\ metadata.entries[dl.dataset].lastUpdatedAt.t < dl.current_ts.t

\* C13: a call that finds a metadata.json it cannot parse, and no request
\* of which fails, downloads the dataset and returns "success".
CorruptIsNoState ==
    [][(/\ metadata.state \in {"corrupt", "undecodable"}
        /\ dl'.status # "none"
        /\ dl'.failure \notin {"metadata", "poll", "nourl", "file"})
          => /\ dl'.status = "success"
             /\ dl'.wrote]_vars

--------------------------------------------------------------------------
(* Properties of get_map_results and fetch_map_data, under SpecGeocode.    *)

\* The position at which an address is first seen in the input.
FirstSeen(data, a) == CHOOSE i \in DOMAIN data : data[i] = a /\ \A j \in 1..(i - 1) : data[j] # a

\* A lookup that was handed to a worker.
Started(f) == f.state \in {"running", "done", "failed"}

\* C14: lookups are started in the order in which their addresses are
\* first seen, and a call that returns returns one row per distinct
\* address of its input, each address looked up once and its row at the
\* position of its lookup, in first-seen order.
OneRowPerAddress ==
    /\ \A i, j \in DOMAIN pool.futures :
          (i < j /\ Started(pool.futures[j])) => Started(pool.futures[i])
    /\ pool.pc = "returned"
          => /\ Len(pool.results) = Cardinality(Range(pool.data))
             /\ Len(pool.futures) = Cardinality(Range(pool.data))
             /\ \A a \in Range(pool.data) :
                   Cardinality({ i \in DOMAIN pool.results :
                                    pool.results[i].address = a }) = 1
             /\ \A i \in DOMAIN pool.results :
                   /\ pool.results[i] = pool.futures[i].row
                   /\ pool.results[i].address = pool.futures[i].address
             /\ \A i, j \in DOMAIN pool.results :
                   i < j => FirstSeen(pool.data, pool.results[i].address)
                               < FirstSeen(pool.data, pool.results[j].address)

\* A call returned the rows of an input with a repeated address, a later
\* lookup having ended before an earlier one.
OneRowPerAddressWitness ==
    /\ pool.pc = "returned"
    /\ pool.overtaken
    /\ Len(pool.results) >= 2
    /\ Len(pool.data) > Len(pool.results)
    /\ pool.results[1].postal # pool.results[2].postal

\* C15: a lookup whose primary geocoder returned a result returns a row
\* with the primary's latitude and longitude; the secondary geocoder is
\* queried exactly when the primary postal code is absent or shorter than
\* 6 characters, and then the row's postal code is the secondary's.
PrimaryResultKept ==
    \A i \in DOMAIN pool.futures :
        LET f == pool.futures[i]
        IN  (f.state \in {"done", "failed"} /\ f.primary.kind = "result")
               => /\ f.state = "done"
                  /\ f.row.latitude = f.primary.latitude
                  /\ f.row.longitude = f.primary.longitude
                  /\ f.osm_queried <=> (f.primary.postal = None
                                           \/ str_len(f.primary.postal) < 6)
                  /\ f.row.postal = IF f.osm_queried THEN f.osm ELSE f.primary.postal

\* The row of an address without coordinates.
NullRow(a) == GeoRow(a, None, None, None)

\* C16: a call in which lookups only failed for want of a primary result
\* or by a failed request returns, with a null row for each such address.
BadAddressTolerated ==
    (/\ pool.pc \in {"returned", "raised"}
     /\ \A i \in DOMAIN pool.futures :
           pool.futures[i].state = "failed"
              => pool.futures[i].primary.kind \in {"none", "error"})
        => /\ pool.pc = "returned"
           /\ \A i \in DOMAIN pool.results :
                 pool.futures[i].primary.kind \in {"none", "error"}
                    => pool.results[i] = NullRow(pool.futures[i].address)

--------------------------------------------------------------------------
(* Properties of csv_to_parquet and convert_lease, under SpecConvert.      *)

\* The columns of a row of df.parquet that it has from the period files.
Source(r) ==
    [_id |-> r._id, remaining_lease |-> r.remaining_lease,
     floor_area_sqm |-> r.floor_area_sqm, resale_price |-> r.resale_price,
     _ts |-> r._ts]

\* The df.parquet of the state was written by the call that ended last.
Compacted == parquet.exists /\ parquet.raised = "none"

\* C18: convert_lease maps 1..60 to "0-60 years", 61..80 to "61-80 years"
\* and 81..99 to "81-99 years", and every row of a df.parquet that
\* csv_to_parquet wrote has the label of its number of years.
LeaseBuckets ==
    /\ \A x \in 1..60 : convert_lease(x) = "0-60 years"
    /\ \A x \in 61..80 : convert_lease(x) = "61-80 years"
    /\ \A x \in 81..99 : convert_lease(x) = "81-99 years"
    /\ \A i \in DOMAIN parquet.rows :
          LET r == parquet.rows[i]
          IN  /\ r.remaining_lease_years = r.remaining_lease.years
              /\ r.remaining_lease_years \in 1..99
              /\ r.cat_remaining_lease_years =
                    IF r.remaining_lease_years <= 60 THEN "0-60 years"
                    ELSE IF r.remaining_lease_years <= 80 THEN "61-80 years"
                    ELSE "81-99 years"

\* A df.parquet holds flats of 60, 61 and 80 years, in two buckets.
LeaseBucketsWitness ==
    /\ Compacted
    /\ { parquet.rows[i].remaining_lease_years : i \in DOMAIN parquet.rows } = {60, 61, 80}
    /\ Cardinality({ parquet.rows[i].cat_remaining_lease_years :
                        i \in DOMAIN parquet.rows }) = 2

\* C19 as stated: a row of 90 m2 and price 450000 has floor_area_sqft 969
\* and psf 450000 / 969.
PsfOfRounded ==
    \A i \in DOMAIN parquet.rows :
        LET r == parquet.rows[i]
        IN  (r.floor_area_sqm = 90 /\ r.resale_price = 450000)
               => /\ r.floor_area_sqft = 969
                  /\ r.psf_x100 = DivE(450000, 969, 2)

\* C19 as amended: a row of 90 m2 and price 450000 has floor_area_sqft
\* 968, the integer part of 90 x 10.7639 = 968.751, and psf 464.51, the
\* price divided by 968.751; for every row the square feet are the integer
\* part of m2 x 10.7639.
PsfOfExactArea ==
    \A i \in DOMAIN parquet.rows :
        LET r == parquet.rows[i]
        IN  /\ r.floor_area_sqft * 10000 <= r.floor_area_sqm * 107639
            /\ r.floor_area_sqm * 107639 < (r.floor_area_sqft + 1) * 10000
            /\ (r.floor_area_sqm = 90 /\ r.resale_price = 450000)
                  => /\ r.floor_area_sqft = 968
                     /\ r.psf_x100 = 46451

\* A df.parquet holds a flat of 90 m2 sold at 450000.
PsfOfExactAreaWitness ==
    /\ Compacted
    /\ \E i \in DOMAIN parquet.rows :
          /\ parquet.rows[i].floor_area_sqm = 90
          /\ parquet.rows[i].resale_price = 450000

\* C20: a df.parquet that csv_to_parquet wrote holds each distinct row of
\* the period files once, rows that differ in _ts alone included.
DistinctRowsKept ==
    Compacted
        => /\ { Source(parquet.rows[i]) : i \in DOMAIN parquet.rows } = Range(csv)
           /\ Len(parquet.rows) = Cardinality(Range(csv))

\* The period files hold a row twice and a row that differs from it in _ts
\* alone; df.parquet holds two rows.
DistinctRowsKeptWitness ==
    /\ Compacted
    /\ Len(csv) = 3
    /\ csv[1] = csv[2]
    /\ csv[3] = [csv[1] EXCEPT !._ts = "2024-05-02"]
    /\ csv[1]._ts = "2024-05-01"
    /\ Len(parquet.rows) = 2

--------------------------------------------------------------------------
(* Properties of update_data, under SpecUpdate.                            *)

\* The run of the state has ended, by sys.exit(0) or by an exception.
Ended == etl.pc \in {"exited", "raised"}

\* C21: a step of an update run writes the metadata only if extract
\* reported a change and the run has recompacted before; a run to which
\* extract reported no change ends with the metadata and df.parquet as
\* they were.
MetadataOnlyAfterChange ==
    [][/\ (etl'.metadata = "new" /\ etl.metadata # "new")
             => (etl'.has_changed /\ etl'.compacted)
       /\ (etl'.pc = "exited" /\ ~etl'.has_changed)
             => (etl'.metadata = "old" /\ ~etl'.compacted /\ parquet' = parquet)
       /\ (etl.pc = "extract" => parquet' = parquet)]_vars

\* extract processed the current month, found as many records as its file
\* holds and reported no change; the run exited without writing.
MetadataOnlyAfterChangeWitness ==
    /\ etl.pc = "exited"
    /\ ~etl.has_changed
    /\ etl.start = current_month
    /\ last.step = "unchanged"
    /\ etl.metadata = "old"
    /\ parquet = NoParquet

\* C22: a run to which extract reported a change ends recompacted, with the
\* metadata written, by sys.exit(0).
ChangeRecompacts ==
    (Ended /\ etl.has_changed)
        => (etl.pc = "exited" /\ etl.compacted /\ etl.metadata = "new")

--------------------------------------------------------------------------
(* Further properties of process_month and extract.                        *)

\* The addresses of the fetch for which the existing file has no
\* coordinate row: their postal, latitude and longitude are missing after
\* the merge unless a lookup resolves them.
WithoutCoordinates(new_data, existing_data) ==
    { r.address : r \in Range(new_data) } \
        { c.address : c \in Range(property_coords(existing_data)) }

\* C23: a call for a period that has rows, which gets as far as the merge
\* with a fetched record whose coordinates are missing, does not raise and
\* writes the period file with all fetched records.
MissingFieldsTolerated ==
    [][(/\ twice.pc = "first"
        /\ twice'.pc = "second"
        /\ load_existing_data(files[Period]) # <<>>
        /\ skip_process(files[Period].exists, twice.should_process)
        /\ twice.new_data # <<>>
        /\ ~data_size_not_updated(twice.new_data, load_existing_data(files[Period]))
        /\ WithoutCoordinates(twice.new_data, load_existing_data(files[Period])) # {})
          => (/\ last'.step = "written"
              /\ Len(files'[Period].rows) = Len(twice.new_data))]_vars

\* C25: every iteration of the loop of extract goes on to the next month
\* of the range, with all_changed set if process_month returned True and
\* kept as it was otherwise.
ExtractCoversRange ==
    [][(run.pc = "loop" /\ run.next <= run.end)
          => (/\ run'.pc = "loop"
              /\ run'.next = run.next + 1
              /\ run'.end = run.end
              /\ run'.all_changed =
                    (run.all_changed \/ ReturnOf(last'.step) = "True"))]_vars

\* The columns of a row of a period file that it has from the fetch.
FetchedPart(row) ==
    [_id |-> row._id, address |-> row.address, resale_price |-> row.resale_price]

\* C28: the period file a call of process_month wrote holds the fetched
\* records, one row for each, in the order of the fetch, and nothing else.
FileIsFetch ==
    [][(/\ twice.pc \in {"first", "second"}
        /\ twice'.pc # twice.pc
        /\ last'.step = "written")
          => (/\ files'[Period].exists
              /\ [i \in DOMAIN files'[Period].rows |->
                     FetchedPart(files'[Period].rows[i])] = twice.new_data)]_vars

\* A call wrote the file from a fetch that lacks a record the file held.
FileIsFetchWitness ==
    /\ twice.pc = "second"
    /\ twice.first = "written"
    /\ last.nOld > last.nNew
    /\ \E i \in Ids :
          /\ i \notin { r._id : r \in Range(twice.new_data) }
          /\ i \notin { r._id : r \in Range(RowsOf(Period)) }
    /\ Len(RowsOf(Period)) = Len(twice.new_data)

\* C29: a call whose fetch returned no record returns False and leaves
\* every period file as it was, an absent one absent.
NoDataNoWrite ==
    [][(Fetched(last'.step) /\ last'.nNew = 0)
          => (/\ last'.step = "nodata"
              /\ ReturnOf(last'.step) = "False"
              /\ files' = files)]_vars

\* A call for a period that has rows fetched nothing and returned.
NoDataWitness ==
    /\ last.step = "nodata"
    /\ last.nNew = 0
    /\ last.nOld > 0
    /\ files[last.month].exists

\* C30: in the loop of fetch_data_gov_sg the offset is the number of
\* records accumulated, an iteration that stays in the loop has raised the
\* offset, no request is made beyond the one after the last full page, and
\* every call ends.
PaginationTerminates ==
    /\ [](pager.pc = "loop" => pager.offset = Len(pager.all_records))
    /\ [][(pager.pc = "loop" /\ pager'.pc = "loop")
             => pager'.offset > pager.offset]_vars
    /\ [](/\ pager.offset <= pager.total
          /\ pager.requests <= (pager.offset \div pager.limit) + 1)
    /\ (pager.pc = "loop" ~> pager.pc = "done")

\* A call ended at a short page after two full ones.
PaginationWitness ==
    /\ pager.pc = "done"
    /\ ~pager.failed
    /\ pager.requests = 3
    /\ pager.total > 2 * pager.limit
    /\ Len(pager.all_records) = pager.total

--------------------------------------------------------------------------
(* Properties of the geocoding lookups, under SpecLookup.                  *)

\* The addresses with a row of non-null postal, latitude and longitude.
ResolvedIn(rows) ==
    { rows[i].address :
        i \in { j \in DOMAIN rows : /\ rows[j].postal # NaN
                                    /\ rows[j].latitude # NaN
                                    /\ rows[j].longitude # NaN } }

\* C24: the addresses a process_month call resolved by a lookup are in the
\* reference table afterwards, and no later call looks them up again.
LookupsWrittenBack ==
    lookups.caller = "process_month"
        => /\ lookups.resolved \subseteq { r.address : r \in Range(table.rows) }
           /\ lookups.batch \cap lookups.before = {}

--------------------------------------------------------------------------
(* Properties of update_property_info, under SpecProperty.                 *)

\* The addresses of the rows of a table that has an address column.
AddressesOf(f) ==
    IF f.exists /\ f.columns = "full"
    THEN { f.rows[i].address : i \in DOMAIN f.rows } \ {NaN}
    ELSE {}

\* The last row of an address in some rows.
LastRowOf(rows, a) ==
    rows[CHOOSE i \in DOMAIN rows :
            /\ rows[i].address = a
            /\ \A j \in DOMAIN rows : rows[j].address = a => j <= i]

\* C26: in the reference table a run of update_property_info wrote no two
\* rows share an address, and the row of an address that was in the table
\* before and is in the downloaded file has the attributes the downloaded
\* file gives it.
AddressUnique ==
    [][upd'.step = "written"
          => /\ \A i, j \in DOMAIN table'.rows :
                   i # j => table'.rows[i].address # table'.rows[j].address
             /\ \A a \in AddressesOf(table) :
                   (upd'.replaced /\ \E k \in DOMAIN upd'.downloaded :
                                        upd'.downloaded[k].address = a)
                      => LastRowOf(table'.rows, a).year_completed =
                            LastRowOf(upd'.downloaded, a).year_completed]_vars

\* A run wrote the table from a download; an address that had its
\* coordinates before has them still, with the year the download gives.
AddressUniqueWitness ==
    /\ upd.step = "written"
    /\ upd.replaced
    /\ \E i \in DOMAIN table.rows :
          /\ table.rows[i].latitude # NaN
          /\ table.rows[i].year_completed = 2
          /\ \E k \in DOMAIN upd.downloaded :
                upd.downloaded[k].address = table.rows[i].address

==========================================================================
